---- MODULE Spec2Model ----
(***************************************************************************)
(* kspacker: packing a Keysight preset and the custom textures it          *)
(* references into one zip archive, and unpacking such an archive.         *)
(*                                                                         *)
(* The model follows src/src/pack (packer.rs, unpacker.rs, helpers.rs,     *)
(* mod.rs).  The file system is three maps from a path (a string built     *)
(* with the same joins and format! calls as the code) to a content:        *)
(*   files    texture files, content = their bytes                         *)
(*   presets  preset documents (.json files) of the installation and user *)
(*   zips     archive files, content = the entries of the zip, in the      *)
(*            order they were written, each a name and its data            *)
(* Directories are taken to exist; a zip dropped without finish() is       *)
(* finalised by its Drop, so a failed pack leaves a readable archive       *)
(* holding the entries written so far.  packed is a history variable: for  *)
(* each archive path, the assets the pack that wrote it kept, with the     *)
(* bytes it read.                                                          *)
(***************************************************************************)
EXTENDS Integers, Sequences, FiniteSets, TLC

VARIABLES files, presets, zips, packed, current_ks_version, packable, loaded, last,
          error_confirmed, confirmed_for, poc_import

vars == <<files, presets, zips, packed, current_ks_version, packable, loaded, last,
          error_confirmed, confirmed_for, poc_import>>

\* the state of the import screens: ImportState::error_confirmed of the main
\* program, the archive the confirmation was given for, and the ImportState
\* of the proof of concept
import_vars == <<error_confirmed, confirmed_for, poc_import>>

(***************************************************************************)
(* Option<T> is a sequence of length 0 (None) or 1 (Some).                 *)
(***************************************************************************)
None == << >>
Some(v) == <<v>>
IsSome(o) == Len(o) = 1
Unwrap(o) == o[1]

Range(s) == {s[i] : i \in 1..Len(s)}

EmptyMap == [p \in {} |-> ""]

\* Path::join
Join(dir, name) == dir \o "/" \o name

\* the map m after File::create(path) followed by writing content
WriteAt(m, path, content) ==
    [p \in DOMAIN m \cup {path} |-> IF p = path THEN content ELSE m[p]]

RemoveAt(m, path) == [p \in DOMAIN m \ {path} |-> m[p]]

(***************************************************************************)
(* Bounds of the model.                                                    *)
(***************************************************************************)
\* texture files the environment may have put in the three roots
MaxFiles == 3

(***************************************************************************)
(* helpers.rs: the directories.                                            *)
(***************************************************************************)
InstallRoot == "C:/KS"
LocalData == "C:/Local"

root_preset_dir == Join(Join(Join(InstallRoot, "Keysight"), "Default presets"), "Standard")
root_asset_dir == Join(Join(InstallRoot, "Keysight"), "Default textures")
custom_preset_dir == Join(Join(Join(LocalData, "Keysight"), "Saved"), "Presets")
custom_asset_dir(random) ==
    Join(Join(Join(LocalData, "Keysight"), "Saved"),
         IF random THEN "Textures (randomizer enabled)" ELSE "Textures")

(***************************************************************************)
(* mod.rs: TextureType and its directory stem.                             *)
(***************************************************************************)
TextureType == {"Diffuse", "Emissive", "WorldStencil", "Mask", "Metalness",
                "Normal", "Roughness", "Shape", "Specular", "Stencil"}

path_name(typ) ==
    CASE typ \in {"Diffuse", "Emissive"} -> "Colour"
      [] typ \in {"WorldStencil", "Mask"} -> "Mask"
      [] typ = "Metalness" -> "Metal"
      [] typ = "Normal" -> "Normal"
      [] typ = "Roughness" -> "Roughness"
      [] typ = "Shape" -> "Particle stencil"
      [] typ = "Specular" -> "Specular"
      [] typ = "Stencil" -> "Pulse stencil"

\* the extensions make_found_file tries, in its order
ImageExts == <<"png", "jpg", "jpeg">>

\* format!("{}.{}", n, ext)
FileName(n, ext) == n \o "." \o ext

\* Path::exists on a texture path
Exists(path) == path \in DOMAIN files

(***************************************************************************)
(* blake3::Hasher over a file's bytes: a digest of OUT_LEN bytes, and      *)
(* Hash::to_hex.  Distinct contents of the model have distinct digests.    *)
(***************************************************************************)
Contents == {"b1", "b2"}

blake3(bytes) ==
    CASE bytes = "b1" -> <<63, 161>>
      [] bytes = "b2" -> <<192, 126>>
      [] OTHER -> <<0, 0>>

HexDigits == <<"0", "1", "2", "3", "4", "5", "6", "7", "8", "9", "a", "b", "c", "d", "e", "f">>

HexByte(b) == HexDigits[(b \div 16) + 1] \o HexDigits[(b % 16) + 1]

to_hex(hash) == HexByte(hash[1]) \o HexByte(hash[2])

(***************************************************************************)
(* packer.rs, Packer::make_found_file.                                     *)
(***************************************************************************)
\* fn test_exts: the first extension, in the order of ImageExts, for which
\* p/n.ext exists
RECURSIVE test_exts_from(_, _, _)
test_exts_from(p, n, i) ==
    IF i > Len(ImageExts) THEN None
    ELSE LET current == Join(p, FileName(n, ImageExts[i]))
         IN  IF Exists(current)
             THEN Some([path |-> current, ext |-> ImageExts[i]])
             ELSE test_exts_from(p, n, i + 1)

\* test_exts trying the extensions from the last to the first
RECURSIVE test_exts_backwards(_, _, _)
test_exts_backwards(p, n, i) ==
    IF i < 1 THEN None
    ELSE LET current == Join(p, FileName(n, ImageExts[i]))
         IN  IF Exists(current)
             THEN Some([path |-> current, ext |-> ImageExts[i]])
             ELSE test_exts_backwards(p, n, i - 1)

test_exts_reversed(p, n) == test_exts_backwards(p, n, Len(ImageExts))

\* test_exts taking the candidates in the order the directory lists them,
\* which differs from one run to the next
test_exts_unordered(p, n) ==
    IF last.op = "collect" THEN test_exts_backwards(p, n, Len(ImageExts))
    ELSE test_exts_from(p, n, 1)

test_exts(p, n) == test_exts_from(p, n, 1)

FoundAsset(name, ext, typ, random, path, action) ==
    [name |-> name, ext |-> ext, texture_type |-> typ, random |-> random,
     path |-> path, action |-> action]

\* make_found_file looking into the custom directories before the
\* installation's
make_found_file_custom_first(typ, file) ==
    LET builtin == test_exts(Join(root_asset_dir, path_name(typ)), file)
        custom  == test_exts(Join(custom_asset_dir(FALSE), path_name(typ)), file)
        randomd == test_exts(Join(custom_asset_dir(TRUE), path_name(typ)), file)
    IN  IF IsSome(custom)
        THEN FoundAsset(file, Unwrap(custom).ext, typ, FALSE, Unwrap(custom).path, "Pack")
        ELSE IF IsSome(randomd)
        THEN FoundAsset(file, Unwrap(randomd).ext, typ, FALSE, Unwrap(randomd).path, "Pack")
        ELSE IF IsSome(builtin)
        THEN FoundAsset(file, Unwrap(builtin).ext, typ, FALSE, Unwrap(builtin).path, "Ignore")
        ELSE FoundAsset(file, "", typ, FALSE, "", "NotFound")

make_found_file(typ, file) ==
    LET builtin == test_exts(Join(root_asset_dir, path_name(typ)), file)
        custom  == test_exts(Join(custom_asset_dir(FALSE), path_name(typ)), file)
        randomd == test_exts(Join(custom_asset_dir(TRUE), path_name(typ)), file)
    IN  IF IsSome(builtin)
        THEN FoundAsset(file, Unwrap(builtin).ext, typ, FALSE, Unwrap(builtin).path, "Ignore")
        ELSE IF IsSome(custom)
        THEN FoundAsset(file, Unwrap(custom).ext, typ, FALSE, Unwrap(custom).path, "Pack")
        ELSE IF IsSome(randomd)
        THEN FoundAsset(file, Unwrap(randomd).ext, typ, FALSE, Unwrap(randomd).path, "Pack")
        ELSE FoundAsset(file, "", typ, FALSE, "", "NotFound")

(***************************************************************************)
(* The preset document.  The module ks_preset (KeysightPresetElement and   *)
(* the Texturable trait) is not among the sources: a document is the       *)
(* record of the fields collect reads, a material is a map from its seven  *)
(* texture slots to an optional texture name.                              *)
(***************************************************************************)
\* the slots in the order get_textures reads them
TextureSlots == <<"Diffuse", "Emissive", "Mask", "Metalness", "Normal", "Roughness", "Specular">>

\* the materials in the order collect reads them
MaterialFields == <<"keypress_material", "note_border_material", "note_object_material",
                    "backdrop_material", "damper_material", "octave_material",
                    "overlay_material", "piano_black_key_material", "piano_white_key_material">>

NoTextures == [s \in Range(TextureSlots) |-> None]

\* Texturable::diffuse() .. specular()
Texture(t, slot) == t[slot]

\* Packer::get_textures: the assets one material adds to files
RECURSIVE get_textures_from(_, _)
get_textures_from(t, i) ==
    IF i > Len(TextureSlots) THEN << >>
    ELSE LET texture == Texture(t, TextureSlots[i])
         IN  (IF IsSome(texture)
              THEN <<make_found_file(TextureSlots[i], Unwrap(texture))>>
              ELSE << >>) \o get_textures_from(t, i + 1)

get_textures(t) == get_textures_from(t, 1)

RECURSIVE MaterialAssets(_, _)
MaterialAssets(doc, i) ==
    IF i > Len(MaterialFields) THEN << >>
    ELSE get_textures(doc.materials[MaterialFields[i]]) \o MaterialAssets(doc, i + 1)

\* collect, lines 133-141
RECURSIVE ParticleAssets(_)
ParticleAssets(arr) ==
    IF arr = << >> THEN << >>
    ELSE (IF ~Head(arr).enabled THEN << >>
          ELSE <<make_found_file("Shape", Head(arr).shape)>>) \o ParticleAssets(Tail(arr))

\* collect, lines 143-152
RECURSIVE PulseAssets(_)
PulseAssets(arr) ==
    IF arr = << >> THEN << >>
    ELSE (IF ~Head(arr).enabled THEN << >>
          ELSE <<make_found_file("Stencil", Head(arr).stencil),
                 make_found_file("WorldStencil", Head(arr).world_stencil)>>)
         \o PulseAssets(Tail(arr))

\* the particle and pulse elements read whatever the flag of their block
DiscoverFiles_all_blocks(doc) ==
    MaterialAssets(doc, 1)
    \o ParticleAssets(doc.particle_v2_array)
    \o PulseAssets(doc.pulse_array_v2)

\* every reference of the document, resolved, in the order collect pushes them
DiscoverFiles(doc) ==
    MaterialAssets(doc, 1)
    \o (IF doc.particles_enabled THEN ParticleAssets(doc.particle_v2_array) ELSE << >>)
    \o (IF doc.pulses_enabled THEN PulseAssets(doc.pulse_array_v2) ELSE << >>)

\* retain_mut dropping only the assets of the installation
RetainPack_not_ignored(fs) == SelectSeq(fs, LAMBDA asset : asset.action # "Ignore")

\* Vec::retain_mut(|asset| asset.action == AssetAction::Pack)
RetainPack(fs) == SelectSeq(fs, LAMBDA asset : asset.action = "Pack")

\* format!("{}.json", preset) under a preset directory
PresetFile(dir, preset) == Join(dir, preset \o ".json")

\* check_builtin_preset looking into the user's preset directory
check_builtin_preset_custom(preset) == PresetFile(custom_preset_dir, preset) \in DOMAIN presets

check_builtin_preset(preset) == PresetFile(root_preset_dir, preset) \in DOMAIN presets

\* collect rejecting only a preset newer than the installation
collect_newer_only(preset, ksv, allow_builtin) ==
    LET preset_path == PresetFile(custom_preset_dir, preset)
    IN  IF ~allow_builtin /\ check_builtin_preset(preset)
        THEN [err |-> "IsBuiltin"]
        ELSE IF preset_path \notin DOMAIN presets
        THEN [err |-> "NotFound"]
        ELSE IF presets[preset_path].versionForUpdatePurposes > ksv
        THEN [err |-> "WrongVersion"]
        ELSE [err |-> "Ok",
              ok  |-> [name |-> preset, path |-> preset_path,
                       assets |-> RetainPack(DiscoverFiles(presets[preset_path]))]]

\* Packer::collect: the Result it returns
collect(preset, ksv, allow_builtin) ==
    LET preset_path == PresetFile(custom_preset_dir, preset)
    IN  IF ~allow_builtin /\ check_builtin_preset(preset)
        THEN [err |-> "IsBuiltin"]
        ELSE IF preset_path \notin DOMAIN presets
        THEN [err |-> "NotFound"]
        ELSE IF presets[preset_path].versionForUpdatePurposes # ksv
        THEN [err |-> "WrongVersion"]
        ELSE [err |-> "Ok",
              ok  |-> [name |-> preset, path |-> preset_path,
                       assets |-> RetainPack(DiscoverFiles(presets[preset_path]))]]

(***************************************************************************)
(* packer.rs, PackablePreset::pack.                                        *)
(***************************************************************************)
MetaEntry(hash, name, extension, typ, random) ==
    [hash |-> hash, name |-> name, extension |-> extension,
     texture_type |-> typ, source_was_random |-> random]

\* an entry of a zip
ZipEntry(name, data) == [name |-> name, data |-> data]

\* the zip after ZipWriter::new and add_directory("assets")
NewZip == <<ZipEntry("assets/", "")>>

\* ZipArchive::by_name: whether there is an entry of that name, and its data
\* (of the entry written last, should the name occur twice)
HasEntry(zipf, name) == \E i \in 1..Len(zipf) : zipf[i].name = name

by_name(zipf, name) ==
    LET i == CHOOSE i \in 1..Len(zipf) :
                 /\ zipf[i].name = name
                 /\ \A j \in 1..Len(zipf) : zipf[j].name = name => j <= i
    IN  zipf[i].data

\* the check of hashes_written left out
AlreadyWritten_never(hashes_written, hash) == FALSE

\* lines 335-338: the digest was written before, the asset is skipped
AlreadyWritten(hashes_written, hash) == hash \in hashes_written

\* the entry with its extension and its hash exchanged
NewAssetEntry_swapped(asset, hash) ==
    MetaEntry(asset.ext, asset.name, to_hex(hash), asset.texture_type, asset.random)

\* lines 349-355
NewAssetEntry(asset, hash) ==
    MetaEntry(to_hex(hash), asset.name, asset.ext, asset.texture_type, asset.random)

\* one turn of the loop over self.assets (lines 309-356); w is the writer's
\* state: the zip entries, hashes_written, asset_entries and the error, if any
PackAsset(asset, w) ==
    IF ~Exists(asset.path)
    THEN [w EXCEPT !.err = "PackIoError"]
    ELSE LET full_file_buffer == files[asset.path]
             hash == blake3(full_file_buffer)
         IN  IF AlreadyWritten(w.hashes_written, hash)
             THEN w
             ELSE [entries        |-> Append(w.entries, ZipEntry("assets/" \o to_hex(hash),
                                                                 full_file_buffer)),
                   hashes_written |-> w.hashes_written \cup {hash},
                   asset_entries  |-> Append(w.asset_entries, NewAssetEntry(asset, hash)),
                   err            |-> "Ok"]

RECURSIVE PackAssets(_, _)
PackAssets(assets, w) ==
    IF assets = << >> \/ w.err # "Ok" THEN w
    ELSE PackAssets(Tail(assets), PackAsset(Head(assets), w))

\* lines 366-374 (the timestamp `packed`, which no operation reads, is left out)
PackMetaData(self, extra_meta, asset_entries) ==
    [name           |-> IF IsSome(extra_meta.rename) THEN Unwrap(extra_meta.rename) ELSE self.name,
     author         |-> extra_meta.author,
     description    |-> extra_meta.description,
     preset_version |-> extra_meta.version,
     target_version |-> extra_meta.current_ks_version,
     assets         |-> asset_entries]

\* pack writing metadata.json right after the assets directory, before the
\* blobs and the preset
pack_metadata_first(self, extra_meta) ==
    LET w == PackAssets(self.assets,
                        [entries |-> NewZip, hashes_written |-> {},
                         asset_entries |-> << >>, err |-> "Ok"])
        meta == ZipEntry("metadata.json", PackMetaData(self, extra_meta, w.asset_entries))
    IN  IF w.err # "Ok" THEN [err |-> w.err, entries |-> NewZip \o <<meta>> \o Tail(w.entries)]
        ELSE IF self.path \notin DOMAIN presets
        THEN [err |-> "PackIoError", entries |-> NewZip \o <<meta>> \o Tail(w.entries)]
        ELSE [err |-> "Ok",
              entries |-> NewZip \o <<meta>> \o Tail(w.entries)
                          \o <<ZipEntry("preset.json", presets[self.path])>>]

\* pack: the error it returns and the entries of the zip it leaves at `to`
pack(self, extra_meta) ==
    LET w == PackAssets(self.assets,
                        [entries |-> NewZip, hashes_written |-> {},
                         asset_entries |-> << >>, err |-> "Ok"])
    IN  IF w.err # "Ok" THEN [err |-> w.err, entries |-> w.entries]
        ELSE IF self.path \notin DOMAIN presets
        THEN [err |-> "PackIoError", entries |-> w.entries]
        ELSE [err |-> "Ok",
              entries |-> w.entries
                          \o <<ZipEntry("preset.json", presets[self.path]),
                               ZipEntry("metadata.json",
                                        PackMetaData(self, extra_meta, w.asset_entries))>>]

(***************************************************************************)
(* unpacker.rs.                                                            *)
(***************************************************************************)
\* test_file looking into the installation's directory as well
test_file_all_roots(e) ==
    \E r \in {root_asset_dir, custom_asset_dir(FALSE)} :
        Exists(Join(Join(r, path_name(e.texture_type)), FileName(e.name, e.extension)))

\* Unpacker::test_file
test_file(e) ==
    Exists(Join(Join(custom_asset_dir(FALSE), path_name(e.texture_type)),
                FileName(e.name, e.extension)))

\* Unpacker::load: the Result it returns
load(path) ==
    IF path \notin DOMAIN zips THEN [err |-> "PackIOError"]
    ELSE IF ~HasEntry(zips[path], "metadata.json") THEN [err |-> "ZipIOError"]
    ELSE LET metadata == by_name(zips[path], "metadata.json")
         IN  [err |-> "Ok",
              ok  |-> [path |-> path, metadata |-> metadata,
                       conflicts |-> SelectSeq(metadata.assets, test_file)]]

\* exists consulting the presets of the installation as well
exists_with_builtin(self) ==
    \/ PresetFile(custom_preset_dir, self.metadata.name) \in DOMAIN presets
    \/ PresetFile(root_preset_dir, self.metadata.name) \in DOMAIN presets

\* PackedFile::exists
exists(self) == PresetFile(custom_preset_dir, self.metadata.name) \in DOMAIN presets

\* line 113: where unpack creates the preset document
UnpackPresetPath(metadata) == Join(custom_preset_dir, metadata.name)

\* lines 132-136: where unpack creates the file of an asset
UnpackAssetPath(asset) ==
    Join(Join(custom_asset_dir(FALSE), path_name(asset.texture_type)),
         FileName(asset.name, asset.hash))

\* one turn of the loop over metadata.assets (lines 121-140); u is the texture
\* files so far and the error, if any
UnpackAsset(zipf, asset, u) ==
    IF ~HasEntry(zipf, "assets/" \o asset.hash)
    THEN [u EXCEPT !.err = "AssetNotFound"]
    ELSE [u EXCEPT !.files = WriteAt(u.files, UnpackAssetPath(asset),
                                     by_name(zipf, "assets/" \o asset.hash))]

\* the loop going on to the next entry after a missing blob
RECURSIVE UnpackAssets_continue(_, _, _)
UnpackAssets_continue(zipf, assets, u) ==
    IF assets = << >> THEN u
    ELSE UnpackAssets_continue(zipf, Tail(assets), UnpackAsset(zipf, Head(assets), u))

RECURSIVE UnpackAssets(_, _, _)
UnpackAssets(zipf, assets, u) ==
    IF assets = << >> \/ u.err # "Ok" THEN u
    ELSE UnpackAssets(zipf, Tail(assets), UnpackAsset(zipf, Head(assets), u))

\* The file handles of one call of unpack, as the events "open" and "close"
\* in the order of the statements: the archive (lines 100-103), the reader of
\* preset.json (106), the preset document created (113), the two drops (118,
\* 119), and per entry the reader of its blob (124) and the file created
\* (132), both dropped at the end of the turn, dst before src.
Event(kind, handle) == [kind |-> kind, handle |-> handle]

\* the preset written with its handles left to the end of the function
UnpackPresetEvents_no_drop(self) ==
    <<Event("open", "preset.json"), Event("open", "out_preset")>>

\* lines 106-119
UnpackPresetEvents(self) ==
    <<Event("open", "preset.json"), Event("open", "out_preset"),
      Event("close", "preset.json"), Event("close", "out_preset")>>

\* lines 121-140
RECURSIVE UnpackAssetEvents(_, _)
UnpackAssetEvents(zipf, assets) ==
    IF assets = << >> THEN << >>
    ELSE IF ~HasEntry(zipf, "assets/" \o Head(assets).hash) THEN << >>
    ELSE <<Event("open", "src " \o Head(assets).hash),
           Event("open", "dst " \o UnpackAssetPath(Head(assets))),
           Event("close", "dst " \o UnpackAssetPath(Head(assets))),
           Event("close", "src " \o Head(assets).hash)>>
         \o UnpackAssetEvents(zipf, Tail(assets))

unpack_events(self) ==
    IF self.path \notin DOMAIN zips THEN << >>
    ELSE LET zipf == zips[self.path]
         IN  <<Event("open", "zip")>>
             \o (IF ~HasEntry(zipf, "preset.json") THEN << >>
                 ELSE UnpackPresetEvents(self)
                      \o UnpackAssetEvents(zipf, self.metadata.assets))
             \o <<Event("close", "zip")>>

\* unpack parsing metadata.json of the archive again instead of using the
\* metadata of the handle
unpack_reparsing(self) ==
    IF self.path \notin DOMAIN zips
    THEN [err |-> "PackIOError", presets |-> presets, files |-> files]
    ELSE LET zipf == zips[self.path]
             metadata == IF HasEntry(zipf, "metadata.json")
                         THEN by_name(zipf, "metadata.json") ELSE self.metadata
         IN  IF ~HasEntry(zipf, "preset.json")
             THEN [err |-> "AssetNotFound", presets |-> presets, files |-> files]
             ELSE LET u == UnpackAssets(zipf, metadata.assets,
                                        [files |-> files, err |-> "Ok"])
                  IN  [err     |-> u.err,
                       presets |-> WriteAt(presets, UnpackPresetPath(metadata),
                                           by_name(zipf, "preset.json")),
                       files   |-> u.files]

\* PackedFile::unpack: the error it returns and the files it leaves
unpack(self) ==
    IF self.path \notin DOMAIN zips
    THEN [err |-> "PackIOError", presets |-> presets, files |-> files]
    ELSE LET zipf == zips[self.path]
         IN  IF ~HasEntry(zipf, "preset.json")
             THEN [err |-> "AssetNotFound", presets |-> presets, files |-> files]
             ELSE LET u == UnpackAssets(zipf, self.metadata.assets,
                                        [files |-> files, err |-> "Ok"])
                  IN  [err     |-> u.err,
                       presets |-> WriteAt(presets, UnpackPresetPath(self.metadata),
                                           by_name(zipf, "preset.json")),
                       files   |-> u.files]

(***************************************************************************)
(* The inputs of the model: the preset documents, the texture files the    *)
(* environment may create, the versions and the archive paths.             *)
(***************************************************************************)
Versions == {1500, 1600}

Material(diffuse, emissive) ==
    [NoTextures EXCEPT !["Diffuse"] = diffuse, !["Emissive"] = emissive]

\* a preset referencing A (diffuse) and B (emissive) in the keypress material,
\* A again in the backdrop material when `twice`, C as the shape of an
\* enabled particle and B as the shape of a disabled one, and a pulse whose
\* stencils no directory holds
PresetDoc(version, twice, particles_enabled) ==
    [versionForUpdatePurposes |-> version,
     materials |-> [f \in Range(MaterialFields) |->
                      CASE f = "keypress_material" -> Material(Some("A"), Some("B"))
                        [] f = "backdrop_material" ->
                             Material(IF twice THEN Some("A") ELSE None, None)
                        [] OTHER -> NoTextures],
     particles_enabled |-> particles_enabled,
     particle_v2_array |-> <<[enabled |-> TRUE, shape |-> "C"],
                             [enabled |-> FALSE, shape |-> "B"]>>,
     pulses_enabled    |-> TRUE,
     pulse_array_v2    |-> <<[enabled |-> TRUE, stencil |-> "A", world_stencil |-> "C"]>>]

PresetDocs == {PresetDoc(1500, t, ~t) : t \in BOOLEAN}

PresetNames == {"P"}
Renames == {None, Some("Q")}
ArchivePaths == {"out.kspreset"}
TexNames == {"A", "B", "C"}

Roots == {"a", "b", "c"}

RootDir(root) ==
    CASE root = "a" -> root_asset_dir
      [] root = "b" -> custom_asset_dir(FALSE)
      [] root = "c" -> custom_asset_dir(TRUE)

AssetPath(root, typ, name, ext) == Join(Join(RootDir(root), path_name(typ)), FileName(name, ext))

\* the texture files the environment may create
EnvPaths ==
    {AssetPath(r, "Diffuse", "A", "png") : r \in Roots}
    \cup {AssetPath("b", "Diffuse", "A", "jpg"),
          AssetPath("b", "Emissive", "B", "png"),
          AssetPath("b", "Shape", "C", "jpeg")}

\* the candidate files of the installation's texture directory
InstalledPaths == {AssetPath("a", "Diffuse", "A", "png")}

FileSystems ==
    UNION {[S -> Contents] : S \in {T \in SUBSET EnvPaths : Cardinality(T) <= MaxFiles}}

ExtraMeta(rename) ==
    [rename |-> rename, author |-> "author", description |-> "description",
     version |-> 1, current_ks_version |-> current_ks_version]

\* poc main.rs 108-119: ImportState::default(); crashed records that the
\* program has ended in an expect("fatal")
PocImportDefault ==
    [unpacker |-> None, conflicts |-> << >>, preset_conflict |-> FALSE,
     checked |-> FALSE, success |-> FALSE, crashed |-> FALSE]

(***************************************************************************)
(* The state machine.  packable is ExportState::packable_preset, loaded is *)
(* ImportState::pack, current_ks_version is App::current_ks_version; last  *)
(* records the latest call and what it returned.                           *)
(***************************************************************************)
Init ==
    /\ files \in FileSystems
    /\ \E doc \in PresetDocs :
         presets = WriteAt(EmptyMap, PresetFile(custom_preset_dir, "P"), doc)
    /\ zips = EmptyMap
    /\ packed = EmptyMap
    /\ current_ks_version \in Versions
    /\ packable = None
    /\ loaded = None
    /\ last = [op |-> "init", result |-> "Ok"]
    /\ error_confirmed = FALSE
    /\ confirmed_for = None
    /\ poc_import = PocImportDefault

\* the export creating its output file before the preset is collected
Collect_creating_output(preset, allow_builtin) ==
    LET r == collect(preset, current_ks_version, allow_builtin)
    IN  /\ packable' = IF r.err = "Ok" THEN Some(r.ok) ELSE None
        /\ last' = [op |-> "collect", result |-> r.err, preset |-> preset,
                    allow_builtin |-> allow_builtin]
        /\ zips' = WriteAt(zips, "out.kspreset", NewZip)
        /\ UNCHANGED <<files, presets, packed, current_ks_version, loaded>>
        /\ UNCHANGED import_vars

\* main.rs 456-474 with packer.rs collect
Collect(preset, allow_builtin) ==
    LET r == collect(preset, current_ks_version, allow_builtin)
    IN  /\ packable' = IF r.err = "Ok" THEN Some(r.ok) ELSE None
        /\ last' = [op |-> "collect", result |-> r.err, preset |-> preset,
                    allow_builtin |-> allow_builtin]
        /\ UNCHANGED <<files, presets, zips, packed, current_ks_version, loaded>>
        /\ UNCHANGED import_vars

\* the kept assets with the bytes of their files
KeptWithBytes(assets) ==
    [i \in 1..Len(assets) |->
        [name |-> assets[i].name, ext |-> assets[i].ext,
         texture_type |-> assets[i].texture_type, bytes |-> files[assets[i].path]]]

\* main.rs 525-552 with packer.rs pack
Pack(to, rename) ==
    /\ IsSome(packable)
    /\ LET r == pack(Unwrap(packable), ExtraMeta(rename))
       IN  /\ zips' = WriteAt(zips, to, r.entries)
           /\ packed' = IF r.err = "Ok"
                         THEN WriteAt(packed, to, KeptWithBytes(Unwrap(packable).assets))
                         ELSE RemoveAt(packed, to)
           /\ packable' = IF r.err = "Ok" THEN None ELSE packable
           /\ last' = [op |-> "pack", result |-> r.err, to |-> to, preset |-> Unwrap(packable)]
    /\ UNCHANGED <<files, presets, current_ks_version, loaded>>
    /\ UNCHANGED import_vars

\* main.rs 312-317 with unpacker.rs load
Load(path) ==
    LET r == load(path)
    IN  /\ loaded' = IF r.err = "Ok" THEN Some(r.ok) ELSE loaded
        /\ last' = [op |-> "load", result |-> r.err, path |-> path]
        /\ UNCHANGED <<files, presets, zips, packed, current_ks_version, packable>>
        /\ UNCHANGED import_vars

\* main.rs 361-362: let has_errors = !preset.conflicts().is_empty() || exists
has_errors(self) == self.conflicts # << >> \/ exists(self)

\* the archive a handle stands for
ArchiveOf(self) == [path |-> self.path, metadata |-> self.metadata]

\* main.rs 410-418: the checkbox, shown when has_errors, is ticked or cleared
Confirm ==
    /\ IsSome(loaded)
    /\ has_errors(Unwrap(loaded))
    /\ error_confirmed' = ~error_confirmed
    /\ confirmed_for' = IF error_confirmed THEN None ELSE Some(ArchiveOf(Unwrap(loaded)))
    /\ UNCHANGED <<files, presets, zips, packed, current_ks_version, packable, loaded, last,
                   poc_import>>

\* main.rs 420-436 with unpacker.rs unpack
Unpack ==
    /\ IsSome(loaded)
    /\ ~has_errors(Unwrap(loaded)) \/ error_confirmed
    /\ error_confirmed' = FALSE
    /\ confirmed_for' = None
    /\ UNCHANGED poc_import
    /\ LET r == unpack(Unwrap(loaded))
       IN  /\ files' = r.files
           /\ presets' = r.presets
           /\ loaded' = IF r.err = "Ok" THEN None ELSE loaded
           /\ last' = [op |-> "unpack", result |-> r.err, pack |-> Unwrap(loaded),
                       handles |-> unpack_events(Unwrap(loaded))]
    /\ UNCHANGED <<zips, packed, current_ks_version, packable>>

\* the archives are carried to another machine with the same installation,
\* whose user has no custom texture and no preset yet; the program starts anew
OtherMachine ==
    /\ zips # EmptyMap
    /\ files' = [p \in {q \in DOMAIN files : q \in InstalledPaths} |-> files[p]]
    /\ presets' = [p \in {q \in DOMAIN presets : q = PresetFile(root_preset_dir, "P")} |-> presets[p]]
    /\ files' # files \/ presets' # presets
    /\ packable' = None
    /\ loaded' = None
    /\ last' = [op |-> "machine", result |-> "Ok"]
    /\ error_confirmed' = FALSE
    /\ confirmed_for' = None
    /\ UNCHANGED <<zips, packed, current_ks_version, poc_import>>

\* export_ui calls collect(true) (main.rs 469)
Next ==
    \/ \E preset \in PresetNames : Collect(preset, TRUE)
    \/ \E to \in ArchivePaths, rename \in Renames : Pack(to, rename)
    \/ \E path \in ArchivePaths : Load(path)
    \/ Confirm
    \/ Unpack
    \/ OtherMachine

Spec == Init /\ [][Next]_vars

(***************************************************************************)
(* The locator on its own: every set of files `A.<ext>` of the Colour      *)
(* directory of the three roots, and make_found_file applied to a          *)
(* category and a name.                                                    *)
(***************************************************************************)
ResolvePaths == {AssetPath(r, "Diffuse", "A", ImageExts[i]) : r \in Roots, i \in 1..Len(ImageExts)}

InitResolve ==
    /\ files \in UNION {[S -> {"b1"}] : S \in SUBSET ResolvePaths}
    /\ presets = EmptyMap
    /\ zips = EmptyMap
    /\ packed = EmptyMap
    /\ current_ks_version = 1500
    /\ packable = None
    /\ loaded = None
    /\ last = [op |-> "init", result |-> "Ok"]
    /\ error_confirmed = FALSE
    /\ confirmed_for = None
    /\ poc_import = PocImportDefault

Resolve(typ, name) ==
    /\ last' = [op |-> "resolve", result |-> "Ok", typ |-> typ, name |-> name,
                found |-> make_found_file(typ, name)]
    /\ UNCHANGED <<files, presets, zips, packed, current_ks_version, packable, loaded>>
    /\ UNCHANGED import_vars

NextResolve == \E typ \in TextureType, name \in {"A", "B"} : Resolve(typ, name)

SpecResolve == InitResolve /\ [][NextResolve]_vars

(***************************************************************************)
(* The importer on its own: an archive handed to the program (whole, or    *)
(* truncated so that blobs its metadata lists are missing), a machine with *)
(* some texture files and presets, and load, the import view and unpack.   *)
(***************************************************************************)
ImportPaths == {"in.kspreset"}
ImportNames == {"P", "Q"}

\* the entries an archive's metadata may list
EntryA == MetaEntry(to_hex(blake3("b1")), "A", "png", "Diffuse", FALSE)
EntryB == MetaEntry(to_hex(blake3("b2")), "B", "png", "Emissive", FALSE)
ImportAssets == {<<EntryA, EntryB>>, <<EntryB, EntryA>>, <<EntryA>>}

\* the archive pack writes for these entries, of which only the blobs of
\* `blobs` are left
ImportArchive(name, assets, blobs) ==
    NewZip
    \o [i \in 1..Len(SelectSeq(<<"b1", "b2">>, LAMBDA b : b \in blobs)) |->
          LET b == SelectSeq(<<"b1", "b2">>, LAMBDA c : c \in blobs)[i]
          IN  ZipEntry("assets/" \o to_hex(blake3(b)), b)]
    \o <<ZipEntry("preset.json", PresetDoc(1500, FALSE, FALSE)),
         ZipEntry("metadata.json",
                  [name |-> name, author |-> "author", description |-> "description",
                   preset_version |-> 1, target_version |-> 1500, assets |-> assets])>>

ImportArchives ==
    {ImportArchive(name, assets, blobs) :
        name \in ImportNames, assets \in ImportAssets, blobs \in SUBSET Contents}

\* the texture files of the importing machine
ImportFilePaths ==
    {AssetPath(r, "Diffuse", "A", "png") : r \in Roots}
    \cup {AssetPath("b", "Diffuse", "A", "jpg"), AssetPath("b", "Emissive", "B", "png")}

ImportFileSystems ==
    UNION {[S -> {"b2"}] : S \in {T \in SUBSET ImportFilePaths : Cardinality(T) <= MaxFiles}}

\* the presets of the importing machine: P of the user, P of the
\* installation, and the file an earlier import of another archive named P
\* has created (line 113)
ImportPresetPaths ==
    {PresetFile(custom_preset_dir, "P"), PresetFile(root_preset_dir, "P"),
     Join(custom_preset_dir, "P")}

InitImport ==
    /\ files \in ImportFileSystems
    /\ presets \in UNION {[S -> {PresetDoc(1500, TRUE, FALSE)}] : S \in SUBSET ImportPresetPaths}
    /\ \E path \in ImportPaths, archive \in ImportArchives :
         zips = WriteAt(EmptyMap, path, archive)
    /\ packed = EmptyMap
    /\ current_ks_version = 1500
    /\ packable = None
    /\ loaded = None
    /\ last = [op |-> "init", result |-> "Ok"]
    /\ error_confirmed = FALSE
    /\ confirmed_for = None
    /\ poc_import = PocImportDefault

\* main.rs 320-362: the import view of a loaded archive, with
\* `let exists = preset.exists()` and has_errors
ImportView ==
    /\ IsSome(loaded)
    /\ last' = [op |-> "view", result |-> "Ok", pack |-> Unwrap(loaded),
                exists |-> exists(Unwrap(loaded)),
                has_errors |-> (Unwrap(loaded).conflicts # << >> \/ exists(Unwrap(loaded)))]
    /\ UNCHANGED <<files, presets, zips, packed, current_ks_version, packable, loaded>>
    /\ UNCHANGED import_vars

NextImport ==
    \/ \E path \in ImportPaths : Load(path)
    \/ ImportView
    \/ Confirm
    \/ Unpack

SpecImport == InitImport /\ [][NextImport]_vars

(***************************************************************************)
(* The exporter on its own: a user preset P of either version or none, a   *)
(* built-in preset P or none, collect with and without allow_builtin,      *)
(* pack, and the user removing a texture file or a preset in between.      *)
(***************************************************************************)
ExportFilePaths == {AssetPath("b", "Diffuse", "A", "png"), AssetPath("c", "Emissive", "B", "jpg")}

ExportPresets ==
    {EmptyMap}
    \cup {WriteAt(EmptyMap, PresetFile(custom_preset_dir, "P"), PresetDoc(v, FALSE, TRUE)) :
            v \in Versions}

BuiltinPresets ==
    {EmptyMap, WriteAt(EmptyMap, PresetFile(root_preset_dir, "P"), PresetDoc(1500, FALSE, FALSE))}

InitExport ==
    /\ files \in UNION {[S -> Contents] : S \in SUBSET ExportFilePaths}
    /\ \E user \in ExportPresets, builtin \in BuiltinPresets :
         presets = [p \in DOMAIN user \cup DOMAIN builtin |->
                      IF p \in DOMAIN user THEN user[p] ELSE builtin[p]]
    /\ zips = EmptyMap
    /\ packed = EmptyMap
    /\ current_ks_version \in Versions
    /\ packable = None
    /\ loaded = None
    /\ last = [op |-> "init", result |-> "Ok"]
    /\ error_confirmed = FALSE
    /\ confirmed_for = None
    /\ poc_import = PocImportDefault

\* the user removes a texture file (pack's File::open of line 311 then fails)
RemoveFile(path) ==
    /\ path \in DOMAIN files
    /\ files' = RemoveAt(files, path)
    /\ last' = [op |-> "remove", result |-> "Ok", path |-> path]
    /\ UNCHANGED <<presets, zips, packed, current_ks_version, packable, loaded>>
    /\ UNCHANGED import_vars

\* the user removes a preset (pack's File::open of line 359 then fails)
RemovePreset(path) ==
    /\ path \in DOMAIN presets
    /\ presets' = RemoveAt(presets, path)
    /\ last' = [op |-> "remove", result |-> "Ok", path |-> path]
    /\ UNCHANGED <<files, zips, packed, current_ks_version, packable, loaded>>
    /\ UNCHANGED import_vars

NextExport ==
    \/ \E preset \in PresetNames, allow_builtin \in BOOLEAN : Collect(preset, allow_builtin)
    \/ \E to \in ArchivePaths, rename \in Renames : Pack(to, rename)
    \/ \E path \in ExportFilePaths : RemoveFile(path)
    \/ \E path \in {PresetFile(custom_preset_dir, "P")} : RemovePreset(path)

SpecExport == InitExport /\ [][NextExport]_vars

(***************************************************************************)
(* The extractor on its own: preset documents whose particle and pulse     *)
(* blocks and elements are enabled or not, with a texture referenced once  *)
(* or twice and with empty names, on a machine whose custom directory      *)
(* holds some of the referenced files; collect as export_ui calls it.      *)
(***************************************************************************)
ShapeNames == {"C", ""}

\* a preset referencing A as diffuse texture of the keypress material (and
\* of the backdrop material when `twice`), one particle and one pulse
ExtractDoc(twice, particles_enabled, particle_enabled, shape, pulses_enabled, pulse_enabled) ==
    [versionForUpdatePurposes |-> 1500,
     materials |-> [f \in Range(MaterialFields) |->
                      CASE f = "keypress_material" -> Material(Some("A"), None)
                        [] f = "backdrop_material" ->
                             Material(IF twice THEN Some("A") ELSE None, None)
                        [] OTHER -> NoTextures],
     particles_enabled |-> particles_enabled,
     particle_v2_array |-> <<[enabled |-> particle_enabled, shape |-> shape]>>,
     pulses_enabled    |-> pulses_enabled,
     pulse_array_v2    |-> <<[enabled |-> pulse_enabled, stencil |-> "S", world_stencil |-> "W"]>>]

ExtractDocs ==
    {ExtractDoc(twice, pe, p, shape, ue, u) :
        twice \in BOOLEAN, pe \in BOOLEAN, p \in BOOLEAN, shape \in ShapeNames,
        ue \in BOOLEAN, u \in BOOLEAN}

\* the texture files of the machine
ExtractFilePaths ==
    {AssetPath("b", "Diffuse", "A", "png"), AssetPath("b", "Diffuse", "A", "jpg"),
     AssetPath("b", "Shape", "C", "png"), AssetPath("b", "Shape", "", "png"),
     AssetPath("b", "Stencil", "S", "png"), AssetPath("c", "WorldStencil", "W", "png")}

InitExtract ==
    /\ files \in UNION {[S -> {"b1"}] : S \in SUBSET ExtractFilePaths}
    /\ \E doc \in ExtractDocs :
         presets = WriteAt(EmptyMap, PresetFile(custom_preset_dir, "P"), doc)
    /\ zips = EmptyMap
    /\ packed = EmptyMap
    /\ current_ks_version = 1500
    /\ packable = None
    /\ loaded = None
    /\ last = [op |-> "init", result |-> "Ok"]
    /\ error_confirmed = FALSE
    /\ confirmed_for = None
    /\ poc_import = PocImportDefault

NextExtract ==
    \/ \E preset \in PresetNames : Collect(preset, TRUE)
    \/ \E path \in ExtractFilePaths : RemoveFile(path)

SpecExtract == InitExtract /\ [][NextExtract]_vars

(***************************************************************************)
(* The proof of concept (poc/src): its resolver, its Unpacker and its      *)
(* import screen.  An archive of the proof of concept holds metadata.json  *)
(* (Meta: preset, author, version, assets), preset.json and one blob       *)
(* extra/<hash> per asset; an entry's ext carries its dot.                 *)
(***************************************************************************)
\* poc resolver.rs 84-86
poc_preset_path(name) == PresetFile(custom_preset_dir, name)

\* poc resolver.rs 88-95
poc_get_preset(name) ==
    IF poc_preset_path(name) \in DOMAIN presets THEN Some(poc_preset_path(name)) ELSE None

\* poc resolver.rs 137-160: the three directories of a category
poc_stem_from_name(typ) ==
    [default |-> Join(root_asset_dir, path_name(typ)),
     custom  |-> Join(custom_asset_dir(FALSE), path_name(typ)),
     random  |-> Join(custom_asset_dir(TRUE), path_name(typ))]

\* poc resolver.rs 101-134
poc_action_for_file(stem, name) ==
    IF IsSome(test_exts_from(stem.default, name, 1)) THEN "DontPack"
    ELSE IF IsSome(test_exts_from(stem.custom, name, 1)) THEN "Pack"
    ELSE IF IsSome(test_exts_from(stem.random, name, 1)) THEN "Pack"
    ELSE "NotFound"

\* poc resolver.rs 97-99
poc_test_file(stem, name) == poc_action_for_file(stem, name) = "Pack"

\* poc unpacker.rs 20-26: Unpacker::new; called records whether conflicts()
\* was called on this Unpacker
Unpacker_new(src) == [source |-> src, metadata |-> None, called |-> FALSE]

\* poc unpacker.rs 33-51: the metadata of the cell if it is set, else parsed
\* from the archive and kept in the cell
poc_load_meta(self) ==
    IF IsSome(self.metadata) THEN [err |-> "Ok", meta |-> Unwrap(self.metadata)]
    ELSE IF self.source \notin DOMAIN zips THEN [err |-> "zip failure"]
    ELSE IF ~HasEntry(zips[self.source], "metadata.json")
    THEN [err |-> "failed to read metadata"]
    ELSE [err |-> "Ok", meta |-> by_name(zips[self.source], "metadata.json")]

\* poc unpacker.rs 69-84
poc_conflicts(self) ==
    LET m == poc_load_meta(self)
    IN  IF m.err # "Ok" THEN [err |-> "metadata failure"]
        ELSE [err |-> "Ok",
              metadata |-> m.meta,
              preset_conflict |-> IsSome(poc_get_preset(m.meta.preset)),
              conflicts |-> SelectSeq(m.meta.assets,
                                LAMBDA entry :
                                    poc_test_file(poc_stem_from_name(entry.typ), entry.name))]

\* poc unpacker.rs 103-115: one turn of the loop over metadata.assets
poc_unpack_asset(zipf, asset, u) ==
    IF ~HasEntry(zipf, "extra/" \o asset.hash)
    THEN [u EXCEPT !.err = "failed to export preset asset"]
    ELSE [u EXCEPT !.files =
              WriteAt(u.files,
                      Join(poc_stem_from_name(asset.typ).custom, asset.name \o asset.ext),
                      by_name(zipf, "extra/" \o asset.hash))]

RECURSIVE poc_unpack_assets(_, _, _)
poc_unpack_assets(zipf, assets, u) ==
    IF assets = << >> \/ u.err # "Ok" THEN u
    ELSE poc_unpack_assets(zipf, Tail(assets), poc_unpack_asset(zipf, Head(assets), u))

\* poc unpacker.rs 86-118
poc_unpack(self) ==
    LET m == poc_load_meta(self)
    IN  IF m.err # "Ok"
        THEN [err |-> "metadata failure", presets |-> presets, files |-> files]
        ELSE IF self.source \notin DOMAIN zips
        THEN [err |-> "zip failure", presets |-> presets, files |-> files]
        ELSE LET zipf == zips[self.source]
             IN  IF ~HasEntry(zipf, "preset.json")
                 THEN [err |-> "preset file does not exist in package",
                       presets |-> presets, files |-> files]
                 ELSE LET u == poc_unpack_assets(zipf, m.meta.assets,
                                                 [files |-> files, err |-> "Ok"])
                      IN  [err     |-> u.err,
                           presets |-> WriteAt(presets, poc_preset_path(m.meta.preset),
                                               by_name(zipf, "preset.json")),
                           files   |-> u.files]

\* the archives of the proof of concept
PocEntry(hash, name, typ) ==
    [hash |-> hash, name |-> name, ext |-> ".png", typ |-> typ, random |-> FALSE]

PocArchive(name, assets) ==
    <<ZipEntry("preset.json", "doc " \o name)>>
    \o [i \in 1..Len(assets) |-> ZipEntry("extra/" \o assets[i].hash, "b1")]
    \o <<ZipEntry("metadata.json",
                  [preset |-> name, author |-> "me", version |-> 1600, assets |-> assets])>>

PocZips ==
    ("p.kspreset" :> PocArchive("P", <<PocEntry("11", "A", "Diffuse")>>))
    @@ ("q.kspreset" :> PocArchive("Q", <<PocEntry("22", "B", "Emissive")>>))
    @@ ("broken.kspreset" :> <<ZipEntry("preset.json", "doc R")>>)

\* what the user may have in the text field when pressing Set
PocImportPaths == {"p.kspreset", "q.kspreset", "broken.kspreset"}

PocFilePaths ==
    {AssetPath("a", "Diffuse", "A", "png"), AssetPath("b", "Diffuse", "A", "png"),
     AssetPath("c", "Emissive", "B", "jpg")}

PocFileSystems ==
    UNION {[S -> {"b2"}] : S \in {T \in SUBSET PocFilePaths : Cardinality(T) <= MaxFiles}}

PocPresetSets ==
    UNION {[S -> {"old"}] : S \in SUBSET {poc_preset_path("P"), poc_preset_path("Q")}}

InitPoc ==
    /\ files \in PocFileSystems
    /\ presets \in PocPresetSets
    /\ zips = PocZips
    /\ packed = << >>
    /\ current_ks_version = 1600
    /\ packable = None
    /\ loaded = None
    /\ last = [op |-> "init", result |-> "Ok"]
    /\ error_confirmed = FALSE
    /\ confirmed_for = None
    /\ poc_import = PocImportDefault

\* poc main.rs 302-311: Set with a path in the text field, the success
\* window not being shown
PocSet(import_path) ==
    /\ ~poc_import.crashed
    /\ ~poc_import.success
    /\ poc_import' = [poc_import EXCEPT !.unpacker = Some(Unpacker_new(import_path))]
    /\ last' = [op |-> "poc_set", result |-> "Ok", path |-> import_path]
    /\ UNCHANGED <<files, presets, zips, packed, current_ks_version, packable, loaded,
                   error_confirmed, confirmed_for>>

\* poc main.rs 357-379: Load, enabled while there is an Unpacker (313).  An
\* Err of conflicts() or unpack() ends the program in expect("fatal").
PocLoad ==
    /\ ~poc_import.crashed
    /\ IsSome(poc_import.unpacker)
    /\ LET self == Unwrap(poc_import.unpacker)
       IN  IF ~poc_import.checked
           THEN LET r == poc_conflicts(self)
                IN  /\ poc_import' =
                           IF r.err # "Ok" THEN [poc_import EXCEPT !.crashed = TRUE]
                           ELSE [poc_import EXCEPT
                                    !.unpacker = Some([self EXCEPT !.metadata = Some(r.metadata),
                                                                   !.called = TRUE]),
                                    !.preset_conflict = r.preset_conflict,
                                    !.conflicts = r.conflicts,
                                    !.checked = TRUE]
                    /\ last' = [op |-> "poc_conflicts", result |-> r.err, unpacker |-> self]
                    /\ UNCHANGED <<files, presets>>
           ELSE LET r == poc_unpack(self)
                IN  /\ poc_import' =
                           IF r.err # "Ok" THEN [poc_import EXCEPT !.crashed = TRUE]
                           ELSE [PocImportDefault EXCEPT !.success = TRUE]
                    /\ files' = r.files
                    /\ presets' = r.presets
                    /\ last' = [op |-> "poc_unpack", result |-> r.err, unpacker |-> self]
    /\ UNCHANGED <<zips, packed, current_ks_version, packable, loaded,
                   error_confirmed, confirmed_for>>

\* poc main.rs 381-396: Ok in the window shown after an import
PocOk ==
    /\ ~poc_import.crashed
    /\ poc_import.success
    /\ poc_import' = [poc_import EXCEPT !.success = FALSE]
    /\ UNCHANGED <<files, presets, zips, packed, current_ks_version, packable, loaded, last,
                   error_confirmed, confirmed_for>>

NextPoc ==
    \/ \E import_path \in PocImportPaths : PocSet(import_path)
    \/ PocLoad
    \/ PocOk

SpecPoc == InitPoc /\ [][NextPoc]_vars

(***************************************************************************)
(* The claims.                                                             *)
(***************************************************************************)
\* the latest call was a pack that returned Ok: zips[last.to] is the archive
\* it produced, last.preset the PackablePreset it packed, and the texture
\* files are those it read
PackedOk == last.op = "pack" /\ last.result = "Ok"

\* the latest call was an unpack that returned Ok: last.pack is the
\* PackedFile it consumed, zips[last.pack.path] the archive it read
UnpackedOk == last.op = "unpack" /\ last.result = "Ok"

\* the blobs of an archive: its entries under assets/
StoredBlobs(zipf) ==
    {i \in 1..Len(zipf) : zipf[i].name \notin {"assets/", "preset.json", "metadata.json"}}

DigestsOf(kept) == {blake3(files[kept[i].path]) : i \in 1..Len(kept)}

\* the candidates of the lookup of spec section 4.2, in priority order:
\* root (a), (b), (c), and in each root png, jpg, jpeg
RootOrder == <<"a", "b", "c">>

Candidate(typ, name, k) ==
    LET root == RootOrder[((k - 1) \div Len(ImageExts)) + 1]
        ext  == ImageExts[((k - 1) % Len(ImageExts)) + 1]
    IN  [root |-> root, ext |-> ext, path |-> AssetPath(root, typ, name, ext)]

ReferenceLookup(typ, name) ==
    LET n    == Len(RootOrder) * Len(ImageExts)
        hits == {k \in 1..n : Exists(Candidate(typ, name, k).path)}
    IN  IF hits = {} THEN [action |-> "NotFound"]
        ELSE LET first == Candidate(typ, name, CHOOSE k \in hits : \A j \in hits : k <= j)
             IN  [action |-> IF first.root = "a" THEN "Ignore" ELSE "Pack",
                  path |-> first.path, ext |-> first.ext]

\* C5: make_found_file(category, name) is the first existing candidate of the
\* reference lookup (roots a, b, c in that order, png, jpg, jpeg within a
\* root): Ignore for root a, Pack for roots b and c, with that file's path
\* and extension, and NotFound when no candidate exists.
C5_ResolveIsReferenceLookup ==
    last.op = "resolve" =>
        LET ref == ReferenceLookup(last.typ, last.name)
        IN  /\ last.found.action = ref.action
            /\ last.found.name = last.name
            /\ last.found.texture_type = last.typ
            /\ ref.action # "NotFound" =>
                   /\ last.found.path = ref.path
                   /\ last.found.ext = ref.ext

\* a lookup decided by the order: A.jpg of the custom directory wins over
\* A.jpeg next to it and over A.png of the randomizer directory
C5_Witness ==
    /\ last.op = "resolve"
    /\ last.found.action = "Pack"
    /\ last.found.ext = "jpg"
    /\ last.found.path = AssetPath("b", last.typ, last.name, "jpg")
    /\ Exists(AssetPath("b", last.typ, last.name, "jpeg"))
    /\ Exists(AssetPath("c", last.typ, last.name, "png"))

\* the archive and the metadata written by the latest pack
PackedZip == zips[last.to]
PackedMeta == by_name(PackedZip, "metadata.json")
PackedKept == last.preset.assets

\* the archive read by the latest unpack and the metadata it used
UnpackedZip == zips[last.pack.path]
UnpackedMeta == last.pack.metadata

\* some file `<name>.<ext>` of the category's directory exists in the root
ExistsIn(root, typ, name) ==
    \E i \in 1..Len(ImageExts) : Exists(AssetPath(root, typ, name, ImageExts[i]))

\* the asset was found in the given root
FoundIn(root, asset) ==
    asset.path = AssetPath(root, asset.texture_type, asset.name, asset.ext)

\* no texture file outside the installation's directory
LocalAssetDirsEmpty ==
    \A p \in DOMAIN files :
        \E typ \in TextureType, name \in TexNames, i \in 1..Len(ImageExts) :
            p = AssetPath("a", typ, name, ImageExts[i])

\* C1: round trip.  Unpacking, with empty local texture directories, an
\* archive packed from three kept assets of which exactly two have the same
\* bytes: the archive holds 2 blobs and 3 entries, and each of the three
\* assets is afterwards in the custom directory of its category, under its
\* name and extension, with the bytes it had when packed.
C1_RoundTrip ==
    [][(/\ last'.op = "unpack" /\ last'.result = "Ok"
        /\ IsSome(loaded)
        /\ Unwrap(loaded).path \in DOMAIN packed
        /\ Unwrap(loaded).metadata = by_name(zips[Unwrap(loaded).path], "metadata.json")
        /\ LocalAssetDirsEmpty
        /\ LET src == packed[Unwrap(loaded).path]
           IN  /\ Len(src) = 3
               /\ \A i, j \in 1..3 : i # j => src[i].name # src[j].name
               /\ Cardinality({src[i].bytes : i \in 1..3}) = 2)
       => LET src  == packed[Unwrap(loaded).path]
              zipf == zips[Unwrap(loaded).path]
          IN  /\ Cardinality(StoredBlobs(zipf)) = 2
              /\ Len(Unwrap(loaded).metadata.assets) = 3
              /\ \A i \in 1..3 :
                    LET dest == AssetPath("b", src[i].texture_type, src[i].name, src[i].ext)
                    IN  dest \in DOMAIN files' /\ files'[dest] = src[i].bytes]_vars

\* C2: a successful pack records one entry per kept asset, also for an asset
\* whose digest was written before: metadata.assets has as many entries as
\* there are kept assets, and each kept asset has an entry with its name,
\* category and extension and the digest of its bytes, stored in the archive.
\* (Stated for the packs whose kept assets are pairwise different files, so
\* that a reference listed twice is not what the count is off by.)
C2_EntryForEveryKeptAsset ==
    (PackedOk /\ \A i, k \in 1..Len(PackedKept) : PackedKept[i].path = PackedKept[k].path => i = k) =>
        /\ Len(PackedMeta.assets) = Len(PackedKept)
        /\ \A i \in 1..Len(PackedKept) :
              \E j \in 1..Len(PackedMeta.assets) :
                  /\ PackedMeta.assets[j].name = PackedKept[i].name
                  /\ PackedMeta.assets[j].texture_type = PackedKept[i].texture_type
                  /\ PackedMeta.assets[j].extension = PackedKept[i].ext
                  /\ PackedMeta.assets[j].hash = to_hex(blake3(files[PackedKept[i].path]))
                  /\ HasEntry(PackedZip, "assets/" \o PackedMeta.assets[j].hash)

\* C3: an archive produced by a successful pack has no two blobs of the same
\* name, and its blobs are exactly assets/<hex digest> for the digests of
\* the kept assets' bytes, each holding the bytes of that digest.
C3_OneBlobPerDigest ==
    PackedOk =>
        /\ \A i, j \in StoredBlobs(PackedZip) :
              PackedZip[i].name = PackedZip[j].name => i = j
        /\ {PackedZip[i].name : i \in StoredBlobs(PackedZip)}
             = {"assets/" \o to_hex(d) : d \in DigestsOf(PackedKept)}
        /\ \A i \in StoredBlobs(PackedZip) :
              PackedZip[i].name = "assets/" \o to_hex(blake3(PackedZip[i].data))
        /\ Cardinality(StoredBlobs(PackedZip)) = Cardinality(DigestsOf(PackedKept))

\* three kept assets, two of them with the same bytes, packed into two blobs
C3_Witness ==
    /\ PackedOk
    /\ Len(PackedKept) = 3
    /\ Cardinality({PackedKept[i].path : i \in 1..3}) = 3
    /\ Cardinality(DigestsOf(PackedKept)) = 2
    /\ Cardinality(StoredBlobs(PackedZip)) = 2

\* C4: in an archive produced by a successful pack, the hashes named by the
\* entries of metadata.assets are exactly the blobs stored under assets/.
C4_EntriesAreTheBlobs ==
    PackedOk =>
        {"assets/" \o PackedMeta.assets[j].hash : j \in 1..Len(PackedMeta.assets)}
          = {PackedZip[i].name : i \in StoredBlobs(PackedZip)}

\* an archive of two blobs and two entries
C4_Witness ==
    /\ PackedOk
    /\ Len(PackedMeta.assets) = 2
    /\ PackedMeta.assets[1].hash # PackedMeta.assets[2].hash
    /\ Cardinality(StoredBlobs(PackedZip)) = 2

\* C6: an asset found in the randomizer directory (root c) is kept with the
\* random flag true and its entry in the archive has source_was_random true;
\* an asset found in the plain custom directory (root b) has the flag false.
C6_RandomFlag ==
    /\ (last.op = "collect" /\ last.result = "Ok") =>
           \A i \in 1..Len(Unwrap(packable).assets) :
               Unwrap(packable).assets[i].random = FoundIn("c", Unwrap(packable).assets[i])
    /\ PackedOk =>
           \A i \in 1..Len(PackedKept), j \in 1..Len(PackedMeta.assets) :
               (/\ PackedMeta.assets[j].name = PackedKept[i].name
                /\ PackedMeta.assets[j].texture_type = PackedKept[i].texture_type)
               => PackedMeta.assets[j].source_was_random = FoundIn("c", PackedKept[i])

\* C7: an asset that exists in the installation's directory and in one of the
\* user's custom directories resolves to Ignore, is not in the list collect returns,
\* and a pack writes no entry for it and no blob but those of the kept assets.
C7_InstalledAssetNeverPacked ==
    \A typ \in TextureType, name \in TexNames :
        (ExistsIn("a", typ, name) /\ (ExistsIn("b", typ, name) \/ ExistsIn("c", typ, name))) =>
            /\ make_found_file(typ, name).action = "Ignore"
            /\ (last.op = "collect" /\ last.result = "Ok") =>
                   \A i \in 1..Len(Unwrap(packable).assets) :
                       ~(/\ Unwrap(packable).assets[i].name = name
                         /\ Unwrap(packable).assets[i].texture_type = typ)
            /\ PackedOk =>
                   /\ \A i \in 1..Len(PackedKept) :
                          ~(PackedKept[i].name = name /\ PackedKept[i].texture_type = typ)
                   /\ \A j \in 1..Len(PackedMeta.assets) :
                          ~(/\ PackedMeta.assets[j].name = name
                            /\ PackedMeta.assets[j].texture_type = typ)
                   /\ \A i \in StoredBlobs(PackedZip) :
                          \E k \in 1..Len(PackedKept) :
                              PackedZip[i].data = files[PackedKept[k].path]

\* a pack of a preset that references A, with A.png in the installation's
\* and in the custom directory, and another asset packed
C7_Witness ==
    /\ PackedOk
    /\ ExistsIn("a", "Diffuse", "A") /\ ExistsIn("b", "Diffuse", "A")
    /\ Len(PackedMeta.assets) >= 1

\* C8: a successful unpack has written the blob of every entry of the
\* metadata to the custom directory of the entry's category, in the file
\* <name>.<extension of the entry>.
C8_UnpackWritesNameDotExtension ==
    UnpackedOk =>
        \A j \in 1..Len(UnpackedMeta.assets) :
            LET e    == UnpackedMeta.assets[j]
                dest == AssetPath("b", e.texture_type, e.name, e.extension)
            IN  /\ dest \in DOMAIN files
                /\ files[dest] = by_name(UnpackedZip, "assets/" \o e.hash)

\* C9: after a successful unpack the archive's preset.json is the file
\* <metadata.name>.json of the local preset directory: the name conflict
\* check on that archive reports true and collect finds the preset.
C9_UnpackedPresetIsFound ==
    UnpackedOk =>
        LET path == PresetFile(custom_preset_dir, UnpackedMeta.name)
        IN  /\ path \in DOMAIN presets
            /\ presets[path] = by_name(UnpackedZip, "preset.json")
            /\ exists(last.pack)
            /\ collect(UnpackedMeta.name, current_ks_version, TRUE).err # "NotFound"

\* C10: after load, an entry of the metadata is in conflicts if and only if
\* some file <name>.<ext>, ext one of the image extensions, exists under the
\* entry's category in the custom directory (root b) or in the randomizer
\* directory (root c).
C10_ConflictsAreLocalFiles ==
    (last.op = "load" /\ last.result = "Ok") =>
        \A j \in 1..Len(Unwrap(loaded).metadata.assets) :
            LET e == Unwrap(loaded).metadata.assets[j]
            IN  (\E k \in 1..Len(Unwrap(loaded).conflicts) : Unwrap(loaded).conflicts[k] = e)
                <=> (ExistsIn("b", e.texture_type, e.name) \/ ExistsIn("c", e.texture_type, e.name))

\* the latest call was a load that returned Ok: loaded is the PackedFile it
\* returned, and the files are those it tested
LoadedOk == last.op = "load" /\ last.result = "Ok" /\ IsSome(loaded)

Listed(e) == \E k \in 1..Len(Unwrap(loaded).conflicts) : Unwrap(loaded).conflicts[k] = e

\* the texture files outside the installation's directory
LocalFiles ==
    {p \in DOMAIN files :
        \A typ \in TextureType, name \in TexNames, i \in 1..Len(ImageExts) :
            p # AssetPath("a", typ, name, ImageExts[i])}

Viewed == last.op = "view"

\* C12: the preset name conflict (PackedFile::exists) is true if and only
\* if the local preset directory holds `<metadata.name>.json`; the built-in
\* presets of the installation are never consulted.
C12_NameConflictIsLocalPreset ==
    Viewed =>
        (last.exists <=>
            \E p \in DOMAIN presets :
                p = LocalData \o "/Keysight/Saved/Presets/" \o last.pack.metadata.name \o ".json")

\* an archive named like a built-in preset, no preset of that name in the
\* local directory, and no conflict shown
C12_Witness ==
    /\ Viewed
    /\ ~last.exists
    /\ \E p \in DOMAIN presets :
         p = InstallRoot \o "/Keysight/Default presets/Standard/" \o last.pack.metadata.name \o ".json"

\* the archive has a blob for the hash
HasBlob(zipf, hash) == \E i \in 1..Len(zipf) : zipf[i].name = "assets/" \o hash

\* the entries of the metadata whose hash has no blob in the archive
MissingBlobs(zipf, assets) == {k \in 1..Len(assets) : ~HasBlob(zipf, assets[k].hash)}

FirstOf(S) == CHOOSE k \in S : \A j \in S : k <= j

\* the step is a call of unpack on the loaded archive
UnpackStep == IsSome(loaded) /\ last'.op = "unpack"

\* C13: unpack fails with AssetNotFound when the hash of some entry has no
\* blob in the archive, and the failure ends the whole unpack: every texture
\* file created or changed by the call holds the blob of an entry that
\* precedes the first missing one, so no entry after it is extracted.
C13_MissingBlobIsFatal ==
    [][UnpackStep =>
        LET self == Unwrap(loaded)
            assets == self.metadata.assets
            missing == MissingBlobs(zips[self.path], assets)
        IN  missing # {} =>
              /\ last'.result = "AssetNotFound"
              /\ \A p \in DOMAIN files' :
                    (p \notin DOMAIN files \/ files'[p] # files[p]) =>
                        \E i \in 1..(FirstOf(missing) - 1) :
                            files'[p] = by_name(zips[self.path], "assets/" \o assets[i].hash)]_vars

\* an unpack that failed on an archive whose metadata lists, after an entry
\* without blob, an entry whose blob the archive holds
C13_Witness ==
    /\ last.op = "unpack"
    /\ last.result = "AssetNotFound"
    /\ LET assets == last.pack.metadata.assets
           zipf == zips[last.pack.path]
       IN  \E k \in MissingBlobs(zipf, assets) :
               \E j \in (k + 1)..Len(assets) : HasBlob(zipf, assets[j].hash)

\* C14: when unpack fails because the metadata lists a hash that has no
\* blob in the archive, the preset document has not been written: the local
\* preset directory is the same as before the call.
C14_FailedUnpackLeavesPresets ==
    [][(/\ UnpackStep
        /\ MissingBlobs(zips[Unwrap(loaded).path], Unwrap(loaded).metadata.assets) # {}
        /\ last'.result = "AssetNotFound")
       => presets' = presets]_vars

\* the latest call was collect: last.preset and last.allow_builtin are its
\* arguments, current_ks_version the target version of the Packer, and the
\* presets are those it looked at
Collected == last.op = "collect"

UserPreset(name) == LocalData \o "/Keysight/Saved/Presets/" \o name \o ".json"
BuiltinPreset(name) == InstallRoot \o "/Keysight/Default presets/Standard/" \o name \o ".json"

VersionDiffers(name) == presets[UserPreset(name)].versionForUpdatePurposes # current_ks_version

\* C15 as stated: version gate.  collect on an existing preset fails with
\* WrongVersion exactly when the version embedded in the preset differs from
\* the target version, and after this failure no archive file has been
\* produced.
C15_VersionGate ==
    (Collected /\ UserPreset(last.preset) \in DOMAIN presets) =>
        /\ (last.result = "WrongVersion") <=> VersionDiffers(last.preset)
        /\ last.result = "WrongVersion" => zips = EmptyMap

\* C15 amended: the same for an existing preset that the built-in guard does
\* not reject (allow_builtin is true, or the installation has no built-in
\* preset of that name); and collect returns WrongVersion for no other preset.
C15_VersionGateBehindBuiltinGuard ==
    Collected =>
        /\ (/\ UserPreset(last.preset) \in DOMAIN presets
            /\ (last.allow_builtin \/ BuiltinPreset(last.preset) \notin DOMAIN presets))
           => /\ (last.result = "WrongVersion") <=> VersionDiffers(last.preset)
              /\ last.result = "WrongVersion" => zips = EmptyMap
        /\ last.result = "WrongVersion"
           => /\ UserPreset(last.preset) \in DOMAIN presets
              /\ VersionDiffers(last.preset)
              /\ zips = EmptyMap

\* target 1500 against a preset embedding 1600 was refused
C15_Witness ==
    /\ Collected
    /\ last.result = "WrongVersion"
    /\ current_ks_version = 1500
    /\ presets[UserPreset(last.preset)].versionForUpdatePurposes = 1600

\* C16: for every preset name with no `<name>.json` in the user's preset
\* directory, collect fails with NotFound, whatever the value of
\* allow_builtin and whether or not the installation has a built-in preset
\* of that name.
C16_AbsentPresetIsNotFound ==
    (Collected /\ UserPreset(last.preset) \notin DOMAIN presets) => last.result = "NotFound"

\* C17: built-in guard.  With allow_builtin = false, collect for a name that
\* has a `<name>.json` in the installation's built-in preset directory fails
\* with IsBuiltin; with allow_builtin = true, collect never returns IsBuiltin.
C17_BuiltinGuard ==
    Collected =>
        /\ (~last.allow_builtin /\ BuiltinPreset(last.preset) \in DOMAIN presets)
           => last.result = "IsBuiltin"
        /\ last.allow_builtin => last.result # "IsBuiltin"

\* a built-in preset refused without allow_builtin although the user has a
\* preset of that name and of the target version
C17_Witness ==
    /\ Collected
    /\ ~last.allow_builtin
    /\ last.result = "IsBuiltin"
    /\ UserPreset(last.preset) \in DOMAIN presets
    /\ ~VersionDiffers(last.preset)

PresetErrors == {"NotFound", "IsBuiltin", "WrongVersion"}

\* C18: when packing ends with a preset error (preset not found, preset is
\* built-in, version mismatch), the file system is unchanged: no texture
\* file, preset or archive has been created, modified or removed.
C18_PresetErrorLeavesFileSystem ==
    [][(last'.op = "collect" /\ last'.result \in PresetErrors)
       => (files' = files /\ presets' = presets /\ zips' = zips)]_vars

\* a collect that ended with a preset error while the archive of an earlier
\* export is in place
C18_Witness ==
    /\ Collected
    /\ last.result \in PresetErrors
    /\ zips # EmptyMap

\* C19: pack is all-or-nothing.  If pack fails at any step, no file is left
\* at the destination path: after a failed pack no archive exists there that
\* was not there before the call.
C19_FailedPackLeavesNoArchive ==
    [][(last'.op = "pack" /\ last'.result # "Ok" /\ last'.to \notin DOMAIN zips)
       => last'.to \notin DOMAIN zips']_vars

\* the reference exists in none of the three roots
Unresolvable(typ, name) ==
    ~ExistsIn("a", typ, name) /\ ~ExistsIn("b", typ, name) /\ ~ExistsIn("c", typ, name)

\* C20: a reference that resolves to NotFound never makes collect or pack
\* fail, and the archive holds neither an entry nor a blob for it.  The
\* presets of this specification always reference assets no root holds:
\* collect succeeds whenever the preset is of the target version and keeps
\* none of them, pack succeeds, every entry of the archive is an asset found
\* in a local root, and every blob is the blob of an entry.
C20_NotFoundIsDropped ==
    /\ (Collected /\ UserPreset(last.preset) \in DOMAIN presets /\ ~VersionDiffers(last.preset))
       => /\ last.result = "Ok"
          /\ \A i \in 1..Len(Unwrap(packable).assets) :
                LET asset == Unwrap(packable).assets[i]
                IN  ~Unresolvable(asset.texture_type, asset.name)
    /\ last.op = "pack"
       => /\ last.result = "Ok"
          /\ \A i \in 1..Len(PackedMeta.assets) :
                ~Unresolvable(PackedMeta.assets[i].texture_type, PackedMeta.assets[i].name)
          /\ \A b \in StoredBlobs(PackedZip) :
                \E i \in 1..Len(PackedMeta.assets) :
                    PackedZip[b].name = "assets/" \o PackedMeta.assets[i].hash

\* an archive packed from a preset of which some referenced assets were
\* found and others (the emissive texture B, the pulse stencil A) were not
C20_Witness ==
    /\ PackedOk
    /\ PackedMeta.assets # << >>
    /\ Unresolvable("Emissive", "B")
    /\ Unresolvable("Stencil", "A")

\* the latest call was a collect that returned Ok: packable holds the
\* PackablePreset it returned, for the document and the files of this state
CollectedOk == Collected /\ last.result = "Ok" /\ IsSome(packable)

CollectedDoc == presets[UserPreset(last.preset)]
KeptAssets == Unwrap(packable).assets

\* an asset of the category and name is in the list
Kept(typ, name) ==
    \E i \in 1..Len(KeptAssets) :
        KeptAssets[i].texture_type = typ /\ KeptAssets[i].name = name

\* the document references the name through an enabled element of the array
ActiveParticle(doc, name) ==
    \E i \in 1..Len(doc.particle_v2_array) :
        doc.particle_v2_array[i].enabled /\ doc.particle_v2_array[i].shape = name

ActivePulse(doc, field, name) ==
    \E i \in 1..Len(doc.pulse_array_v2) :
        doc.pulse_array_v2[i].enabled /\ doc.pulse_array_v2[i][field] = name

\* a file of the name is in a local root of the category and none in the
\* installation: a reference to it is kept
Packable(typ, name) ==
    ~ExistsIn("a", typ, name) /\ (ExistsIn("b", typ, name) \/ ExistsIn("c", typ, name))

EffectNames == {"A", "C", "S", "W"}

\* C21: the particle and pulse collections contribute references only
\* through elements that are enabled inside a block that is enabled, and the
\* two block flags act independently: a Shape asset is listed exactly when
\* particles_enabled holds and an enabled particle names an available file,
\* a Stencil or WorldStencil asset exactly when pulses_enabled holds and an
\* enabled pulse names one.
C21_EnabledBlocksAndElements ==
    CollectedOk =>
        \A name \in EffectNames :
            /\ Kept("Shape", name)
               <=> (/\ CollectedDoc.particles_enabled
                    /\ ActiveParticle(CollectedDoc, name)
                    /\ Packable("Shape", name))
            /\ Kept("Stencil", name)
               <=> (/\ CollectedDoc.pulses_enabled
                    /\ ActivePulse(CollectedDoc, "stencil", name)
                    /\ Packable("Stencil", name))
            /\ Kept("WorldStencil", name)
               <=> (/\ CollectedDoc.pulses_enabled
                    /\ ActivePulse(CollectedDoc, "world_stencil", name)
                    /\ Packable("WorldStencil", name))

\* particles disabled with an enabled particle whose file exists, pulses
\* enabled: the stencil is listed, the shape is not
C21_Witness ==
    /\ CollectedOk
    /\ ~CollectedDoc.particles_enabled
    /\ ActiveParticle(CollectedDoc, "C")
    /\ Packable("Shape", "C")
    /\ ~Kept("Shape", "C")
    /\ Kept("Stencil", "S")

\* C22: the extractor never emits a reference whose logical name is empty:
\* for every preset document, including one with an enabled particle whose
\* shape is the empty string, no asset is listed for an empty name.
C22_NoEmptyName ==
    CollectedOk => \A i \in 1..Len(KeptAssets) : KeptAssets[i].name # ""

\* C23: the asset list produced for a preset contains no two entries with
\* the same (logical name, category), also when several materials of the
\* preset reference the same texture in the same category.
C23_NoDuplicateAsset ==
    CollectedOk =>
        \A i, j \in 1..Len(KeptAssets) :
            (/\ KeptAssets[i].name = KeptAssets[j].name
             /\ KeptAssets[i].texture_type = KeptAssets[j].texture_type) => i = j

C25_MetadataParsedOnce ==
    [][/\ (IsSome(loaded) /\ IsSome(loaded') /\ last'.op # "load")
          => Unwrap(loaded').metadata = Unwrap(loaded).metadata
       /\ UnpackStep
          => LET metadata == Unwrap(loaded).metadata
             IN  /\ last'.pack.metadata = metadata
                 /\ \E p \in DOMAIN presets' :
                       \/ p = LocalData \o "/Keysight/Saved/Presets/" \o metadata.name
                       \/ p = UserPreset(metadata.name)
                 /\ last'.result = "Ok"
                    => \A i \in 1..Len(metadata.assets) :
                          \E p \in DOMAIN files' :
                              files'[p] = by_name(zips[Unwrap(loaded).path],
                                                  "assets/" \o metadata.assets[i].hash)]_vars

\* an unpack of a handle whose archive file was replaced, after the load, by
\* an archive with other metadata
C25_Witness ==
    /\ last.op = "unpack"
    /\ last.pack.path \in DOMAIN zips
    /\ by_name(zips[last.pack.path], "metadata.json") # last.pack.metadata

\* the handles open after the first n events
OpenAfter(ev, n) ==
    {h \in {ev[k].handle : k \in 1..n} :
        \E k \in 1..n :
            /\ ev[k] = Event("open", h)
            /\ \A j \in (k + 1)..n : ev[j] # Event("close", h)}

AssetHandles(ev) == {ev[k].handle : k \in 1..Len(ev)} \ {"zip", "preset.json", "out_preset"}

\* C26: during unpack the output handle of the preset document and the
\* reader of preset.json are both released before the first blob is looked
\* up or the first asset file is created, and at no point are the preset
\* output file and an asset file open together.
C26_PresetClosedBeforeAssets ==
    last.op = "unpack" =>
        LET ev == last.handles
        IN  /\ \A n \in 1..Len(ev) :
                 ev[n].handle \in AssetHandles(ev)
                 => OpenAfter(ev, n - 1) \cap {"preset.json", "out_preset"} = {}
            /\ \A n \in 1..Len(ev) :
                 "out_preset" \in OpenAfter(ev, n) => OpenAfter(ev, n) \cap AssetHandles(ev) = {}

\* an unpack that wrote the preset and extracted two assets
C26_Witness ==
    /\ last.op = "unpack"
    /\ last.result = "Ok"
    /\ Event("close", "out_preset") \in Range(last.handles)
    /\ Cardinality(AssetHandles(last.handles)) = 4

\* C27: overwrites are always announced.  When the file system did not
\* change between load and unpack, every file that existed before unpack and
\* whose content unpack replaces was reported by the handle: the preset by
\* the preset-name conflict check, a texture file by an entry of the
\* conflicts whose blob it now holds.
C27_OverwritesAnnounced ==
    [][(UnpackStep /\ last.op \in {"load", "view", "confirm"})
       => LET self == Unwrap(loaded)
          IN  /\ \A p \in DOMAIN presets :
                    presets'[p] # presets[p] => exists(self)
              /\ \A p \in DOMAIN files :
                    files'[p] # files[p]
                    => \E k \in 1..Len(self.conflicts) :
                          /\ HasBlob(zips[self.path], self.conflicts[k].hash)
                          /\ files'[p] = by_name(zips[self.path],
                                                 "assets/" \o self.conflicts[k].hash)]_vars

\* the first n entries of a zip: what a run of pack interrupted there leaves
Prefix(zipf, n) == SubSeq(zipf, 1, n)

HasName(zipf, name) == \E i \in 1..Len(zipf) : zipf[i].name = name

\* the metadata of the zip lists only hashes whose blob the zip holds
MetadataComplete(zipf) ==
    \A i \in 1..Len(zipf) :
        zipf[i].name = "metadata.json"
        => \A k \in 1..Len(zipf[i].data.assets) : HasBlob(zipf, zipf[i].data.assets[k].hash)

\* C30: pack writes metadata.json last, after every blob and after
\* preset.json.  In every prefix of every output of pack, and so in whatever
\* a failed pack leaves behind, metadata.json is present only if preset.json
\* and every blob named by its entries are present; and load rejects an
\* output that lacks metadata.json.
C30_MetadataWrittenLast ==
    \A path \in DOMAIN zips :
        /\ \A n \in 0..Len(zips[path]) :
              HasName(Prefix(zips[path], n), "metadata.json")
              => /\ HasName(Prefix(zips[path], n), "preset.json")
                 /\ MetadataComplete(Prefix(zips[path], n))
        /\ ~HasName(zips[path], "metadata.json") => load(path).err # "Ok"

\* a failed pack that left an output with a blob and without metadata.json
C30_Witness ==
    /\ last.op = "pack"
    /\ last.result # "Ok"
    /\ StoredBlobs(zips[last.to]) # {}
    /\ ~HasName(zips[last.to], "metadata.json")

\* C28: a confirmation of conflicts authorizes only the archive it was given
\* for.  An import of a loaded archive that has a preset-name or asset
\* conflict starts only if the checkbox was ticked while that same archive
\* was the loaded one; a load that replaces the loaded archive by another
\* one leaves the checkbox cleared, and so does every import, failed or
\* successful.
C28_ConfirmationIsPerArchive ==
    [][ /\ (UnpackStep /\ has_errors(Unwrap(loaded))
               => confirmed_for = Some(ArchiveOf(Unwrap(loaded))))
        /\ (last'.op = "load" /\ IsSome(loaded) /\ IsSome(loaded')
               => (ArchiveOf(Unwrap(loaded')) # ArchiveOf(Unwrap(loaded))
                      => ~error_confirmed'))
        /\ (UnpackStep => ~error_confirmed') ]_vars

\* C29: in the import screen of the proof of concept, unpack() is called on
\* an Unpacker only after conflicts() was called on that same Unpacker: the
\* Load that imports is never the first Load of the archive that was set.
C29_ConflictsBeforeUnpack ==
    last.op = "poc_unpack" => last.unpacker.called
====
